---------------------------- MODULE Spec2Model ----------------------------
(***************************************************************************)
(* A model of src/src/completion.ts: the completion-candidate engine of    *)
(* the Structurizr DSL / Kotlin-like autocomplete library.                 *)
(*                                                                         *)
(* Text is modelled as a sequence of one-character strings, so that        *)
(* trim(), toLowerCase() and startsWith() are computed character by        *)
(* character, as String.prototype does.                                    *)
(***************************************************************************)
EXTENDS Integers, Sequences, FiniteSets, TLC

VARIABLES
    filterTokens,   \* the module-level `filterTokens` binding (line 60): a strategy id
    input,          \* the document and caret the requests are about
    last,           \* the last completed request: its result and what it invoked
    fcall,          \* a direct call of filterTokens_startsWith: inputs and output
    acall,          \* a direct call of getAllSymbolsOfType: table, scope, type, output
    gcall           \* a direct call of getScope: tree, table, node, output

vars == <<filterTokens, input, last, fcall, acall, gcall>>

Idle == [op |-> "idle"]

(***************************************************************************)
(* Text                                                                    *)
(***************************************************************************)
UpperChars == <<"A","B","C","D","E","F","G","H","I","J","K","L","M",
                "N","O","P","Q","R","S","T","U","V","W","X","Y","Z">>
LowerChars == <<"a","b","c","d","e","f","g","h","i","j","k","l","m",
                "n","o","p","q","r","s","t","u","v","w","x","y","z">>

\* String.prototype.toLowerCase on one character
LowerChar(c) ==
    IF \E i \in DOMAIN UpperChars : UpperChars[i] = c
    THEN LowerChars[CHOOSE i \in DOMAIN UpperChars : UpperChars[i] = c]
    ELSE c

toLowerCase(s) == [i \in 1..Len(s) |-> LowerChar(s[i])]

IsWhiteSpace(c) == c \in {" ", "\t", "\n"}

RECURSIVE trimStart(_)
trimStart(s) ==
    IF s # <<>> /\ IsWhiteSpace(Head(s)) THEN trimStart(Tail(s)) ELSE s

RECURSIVE trimEnd(_)
trimEnd(s) ==
    IF s # <<>> /\ IsWhiteSpace(s[Len(s)])
    THEN trimEnd(SubSeq(s, 1, Len(s) - 1)) ELSE s

\* String.prototype.trim
trim(s) == trimEnd(trimStart(s))

\* String.prototype.startsWith
startsWith(s, p) == Len(p) <= Len(s) /\ SubSeq(s, 1, Len(p)) = p

(***************************************************************************)
(* Prefix Filter (lines 52-63)                                             *)
(***************************************************************************)
\* a plausible slip: the typed text is not lower-cased before the comparison
filterTokens_startsWith_caseOfText(text, candidates) ==
    IF Len(trim(text)) = 0
    THEN candidates
    ELSE SelectSeq(candidates, LAMBDA c : startsWith(toLowerCase(c), text))

filterTokens_startsWith(text, candidates) ==
    IF Len(trim(text)) = 0
    THEN candidates
    ELSE SelectSeq(candidates,
                   LAMBDA c : startsWith(toLowerCase(c), toLowerCase(text)))

\* A replacement strategy a caller may install with setTokenMatcher: a
\* substring ("fuzzy") matcher that keeps the candidates containing the text.
filterTokens_contains(text, candidates) ==
    SelectSeq(candidates,
              LAMBDA c : \E k \in 0..Len(c) :
                  startsWith(SubSeq(c, k + 1, Len(c)), text))

Matchers == {"startsWith", "contains"}

\* calling the function value a strategy id stands for
ApplyMatcher(m, text, candidates) ==
    CASE m = "startsWith" -> filterTokens_startsWith(text, candidates)
      [] m = "contains"   -> filterTokens_contains(text, candidates)

(***************************************************************************)
(* Direct calls of the prefix filter                                       *)
(***************************************************************************)
MaxCands == 3

Prefixes ==
    { <<>>, <<" ">>, <<" ", "\t">>, <<"F","o">>, <<"f","o">>, <<"f","O">>,
      <<"f">>, <<"b">>, <<" ","f">>, <<"f","o","o","b">>, <<"o">> }

CandidateTexts ==
    { <<"f","o","o">>, <<"F","o","o","b","a","r">>, <<"b","a","r">>,
      <<"F","O">>, <<" ","f","o","o">>, <<>> }

SeqsUpTo(S, n) == UNION { [1..k -> S] : k \in 0..n }

InitFilter ==
    /\ fcall \in [op : {"ready"}, prefix : Prefixes,
                  candidates : SeqsUpTo(CandidateTexts, MaxCands)]
    /\ filterTokens = "startsWith"
    /\ input = Idle /\ last = Idle /\ acall = Idle /\ gcall = Idle

CallFilter ==
    /\ fcall.op = "ready"
    /\ fcall' = [op |-> "returned", prefix |-> fcall.prefix,
                 candidates |-> fcall.candidates,
                 out |-> filterTokens_startsWith(fcall.prefix, fcall.candidates)]
    /\ UNCHANGED <<filterTokens, input, last, acall, gcall>>

NextFilter == CallFilter

SpecFilter == InitFilter /\ [][NextFilter]_vars

\* ---- C1 ----
SameLetter(a, b) ==
    \/ a = b
    \/ \E i \in DOMAIN UpperChars : {a, b} = {UpperChars[i], LowerChars[i]}

BeginsWithIgnoringCase(c, p) ==
    /\ Len(p) <= Len(c)
    /\ \A i \in 1..Len(p) : SameLetter(c[i], p[i])

\* out is cands restricted to the positions in keep, in the original order
IsSelection(out, cands, keep) ==
    /\ Len(out) = Cardinality(keep)
    /\ \A i \in keep :
         out[Cardinality({j \in keep : j <= i})] = cands[i]

\* C1: with an empty or all-whitespace prefix the default filter returns the
\* candidate list unchanged; otherwise it returns exactly the candidates that
\* begin with the prefix, letters compared without regard to case, in their
\* original order and with duplicates kept.
C1_PrefixFilter ==
    fcall.op = "returned" =>
        IF \A i \in 1..Len(fcall.prefix) : IsWhiteSpace(fcall.prefix[i])
        THEN fcall.out = fcall.candidates
        ELSE IsSelection(fcall.out, fcall.candidates,
                 {i \in 1..Len(fcall.candidates) :
                      BeginsWithIgnoringCase(fcall.candidates[i], fcall.prefix)})

\* the spec's example: filter("Fo", ["foo","Foobar","bar"]) = ["foo","Foobar"]
C1_Witness ==
    /\ fcall.op = "returned"
    /\ fcall.prefix = <<"F","o">>
    /\ fcall.candidates =
          << <<"f","o","o">>, <<"F","o","o","b","a","r">>, <<"b","a","r">> >>
    /\ fcall.out = << <<"f","o","o">>, <<"F","o","o","b","a","r">> >>


(***************************************************************************)
(* Symbol table (antlr4-c3).  A table is a sequence of symbols; symbol i   *)
(* is tab[i] = [parent, cls, name, ctx].  Id 0 is the SymbolTable itself   *)
(* (a ScopedSymbol without parent), -1 is `undefined`.  A scoped symbol's  *)
(* children are the symbols added to it, in the order they were added      *)
(* (ascending id).  ctx is the parse-tree node attached to the symbol      *)
(* (Symbol.context), 0 when none is attached.  The builder creates no      *)
(* NamespaceSymbol, so the namespace case of getAllSymbolsSync is absent.  *)
(***************************************************************************)
\* Symbol.parent
ParentOf(tab, s) == IF s <= 0 THEN -1 ELSE tab[s].parent

\* s instanceof ScopedSymbol
IsScopedSymbol(tab, s) == s = 0 \/ (s > 0 /\ tab[s].cls = "ScopedSymbol")

\* s instanceof type
InstanceOf(tab, s, type) == type = "Symbol" \/ tab[s].cls = type

\* ScopedSymbol.children
Children(tab, s) ==
    IF IsScopedSymbol(tab, s)
    THEN SelectSeq([i \in 1..Len(tab) |-> i], LAMBDA i : tab[i].parent = s)
    ELSE <<>>

\* ScopedSymbol.getAllSymbolsSync(type, localOnly): the children of the given
\* type and, unless localOnly, those of a scoped parent
getAllSymbolsSync(tab, s, type, localOnly) ==
    LET own(x) == SelectSeq(Children(tab, x), LAMBDA i : InstanceOf(tab, i, type))
    IN  IF ~localOnly /\ IsScopedSymbol(tab, ParentOf(tab, s))
        THEN own(s) \o own(ParentOf(tab, s))
        ELSE own(s)

(***************************************************************************)
(* Symbol Aggregator (lines 24-34)                                         *)
(***************************************************************************)
\* lines 27-29: while(parent && !(parent instanceof ScopedSymbol))
RECURSIVE skipToScoped(_, _)
skipToScoped(tab, parent) ==
    IF parent >= 0 /\ ~IsScopedSymbol(tab, parent)
    THEN skipToScoped(tab, ParentOf(tab, parent))
    ELSE parent

\* a plausible slip: the enclosing scope's symbols are put first
RECURSIVE getAllSymbolsOfType_outerFirst(_, _, _)
getAllSymbolsOfType_outerFirst(tab, scope, type) ==
    LET symbols == getAllSymbolsSync(tab, scope, type, TRUE)
        parent  == skipToScoped(tab, ParentOf(tab, scope))
    IN  IF parent >= 0
        THEN getAllSymbolsOfType_outerFirst(tab, parent, type) \o symbols
        ELSE symbols

\* a plausible slip: a parent that is no scope ends the climb
RECURSIVE getAllSymbolsOfType_noSkip(_, _, _)
getAllSymbolsOfType_noSkip(tab, scope, type) ==
    LET symbols == getAllSymbolsSync(tab, scope, type, TRUE)
        parent  == ParentOf(tab, scope)
    IN  IF parent >= 0 /\ IsScopedSymbol(tab, parent)
        THEN symbols \o getAllSymbolsOfType_noSkip(tab, parent, type)
        ELSE symbols

RECURSIVE getAllSymbolsOfType(_, _, _)
getAllSymbolsOfType(tab, scope, type) ==
    LET symbols == getAllSymbolsSync(tab, scope, type, TRUE)
        parent  == skipToScoped(tab, ParentOf(tab, scope))
    IN  IF parent >= 0
        THEN symbols \o getAllSymbolsOfType(tab, parent, type)
        ELSE symbols

(***************************************************************************)
(* Scope trees for direct calls of the aggregator: MaxScopes scopes below  *)
(* the table, each inside an earlier one, each declaring one of a few      *)
(* symbol lists; one scope may hang below a symbol that is no scope.       *)
(***************************************************************************)
MaxScopes == 3

Sym(cls, name) == [cls |-> cls, name |-> name]

DeclChoices ==
    { <<>>,
      << Sym("VariableSymbol", "x") >>,
      << Sym("VariableSymbol", "y"), Sym("LiteralSymbol", "x"),
         Sym("VariableSymbol", "x") >> }

RECURSIVE DeclSymbols(_, _, _)
DeclSymbols(decl, k, n) ==
    IF k > n THEN <<>>
    ELSE [i \in 1..Len(decl[k]) |->
            [parent |-> k, cls |-> decl[k][i].cls,
             name |-> decl[k][i].name, ctx |-> 0]]
         \o DeclSymbols(decl, k + 1, n)

\* scopes 1..n, then the symbol that is no scope (id n+1), then the declared
\* symbols; scope `via` (if any) has that symbol as its parent
MkTable(n, par, via, decl) ==
    [s \in 1..n |->
        [parent |-> IF via = s THEN n + 1 ELSE par[s],
         cls |-> "ScopedSymbol", name |-> "", ctx |-> 0]]
    \o << [parent |-> IF via = 0 THEN 0 ELSE par[via],
           cls |-> "LiteralSymbol", name |-> "x", ctx |-> 0] >>
    \o DeclSymbols(decl, 0, n)

ScopeTrees ==
    { MkTable(MaxScopes, par, via, decl) :
        par \in {p \in [1..MaxScopes -> 0..(MaxScopes - 1)] :
                    \A s \in 1..MaxScopes : p[s] < s},
        via \in 0..MaxScopes,
        decl \in [0..MaxScopes -> DeclChoices] }

SymbolTypes == {"VariableSymbol", "LiteralSymbol"}

InitSymbols ==
    /\ \E tab \in ScopeTrees, scope \in 0..MaxScopes, type \in SymbolTypes :
          acall = [op |-> "ready", tab |-> tab, scope |-> scope, type |-> type]
    /\ filterTokens = "startsWith"
    /\ input = Idle /\ last = Idle /\ fcall = Idle /\ gcall = Idle

CallAggregator ==
    /\ acall.op = "ready"
    /\ acall' = [op |-> "returned", tab |-> acall.tab, scope |-> acall.scope,
                 type |-> acall.type,
                 out |-> getAllSymbolsOfType(acall.tab, acall.scope, acall.type)]
    /\ UNCHANGED <<filterTokens, input, last, fcall, gcall>>

NextSymbols == CallAggregator

SpecSymbols == InitSymbols /\ [][NextSymbols]_vars

\* ---- C2, C10 ----
RangeOf(f) == {f[i] : i \in DOMAIN f}

RECURSIVE Ancestors(_, _)
Ancestors(tab, s) ==
    IF ParentOf(tab, s) < 0 THEN {}
    ELSE {ParentOf(tab, s)} \cup Ancestors(tab, ParentOf(tab, s))

\* the scopes s lies inside
ScopeAncestors(tab, s) == {a \in Ancestors(tab, s) : IsScopedSymbol(tab, a)}

Depth(tab, s) == Cardinality(Ancestors(tab, s))

\* the scope s is a child of: the innermost scope it lies inside
Encloser(tab, s) ==
    CHOOSE a \in ScopeAncestors(tab, s) :
        \A b \in ScopeAncestors(tab, s) : Depth(tab, b) <= Depth(tab, a)

Scopes(tab) == {s \in 0..Len(tab) : IsScopedSymbol(tab, s)}

\* the symbols of the given type declared in scope s
Declared(tab, s, type) ==
    {i \in 1..Len(tab) : tab[i].parent = s /\ InstanceOf(tab, i, type)}

\* a scope that is a child of B or C and not on the chain from A to the root
IsSibling(tab, s, A, B, C) ==
    /\ s \in Scopes(tab) /\ s # 0
    /\ s \notin ({A} \cup ScopeAncestors(tab, A))
    /\ Encloser(tab, s) \in {B, C}

C10_LevelOrder ==
    acall.op = "returned" =>
        LET tab   == acall.tab
            out   == acall.out
            chain == {acall.scope} \cup ScopeAncestors(tab, acall.scope)
        IN  /\ \A j \in DOMAIN out :
                  /\ InstanceOf(tab, out[j], acall.type)
                  /\ tab[out[j]].parent \in chain
            /\ \A s \in chain : \A i \in Declared(tab, s, acall.type) :
                  Cardinality({j \in DOMAIN out : out[j] = i}) = 1
            /\ \A j, k \in DOMAIN out :
                  j < k => Depth(tab, tab[out[j]].parent)
                              >= Depth(tab, tab[out[k]].parent)

\* a name declared in the starting scope and in an enclosing scope appears
\* twice, the inner declaration first, the climb passing a non-scope parent
C10_Witness ==
    /\ acall.op = "returned"
    /\ ~IsScopedSymbol(acall.tab, ParentOf(acall.tab, acall.scope))
    /\ \E j, k \in DOMAIN acall.out :
          /\ j < k
          /\ acall.tab[acall.out[j]].name = acall.tab[acall.out[k]].name
          /\ acall.tab[acall.out[j]].parent = acall.scope
          /\ acall.tab[acall.out[k]].parent = 0
          /\ Encloser(acall.tab, acall.scope) # 0

(***************************************************************************)
(* Parse tree (antlr4ts).  A tree is a sequence of nodes; node i is        *)
(* tree[i] = [parent, kind, type]: parent is 0 at the root, kind is the    *)
(* node's class, type the token type of a TerminalNode's symbol.  Node 0   *)
(* is `undefined`.                                                         *)
(***************************************************************************)
\* SymbolTable.symbolWithContextSync: the first symbol, depth-first through
\* the children lists, whose context is the given node
RECURSIVE Preorder(_, _)
RECURSIVE PreorderAll(_, _)
Preorder(tab, s) == <<s>> \o PreorderAll(tab, Children(tab, s))
PreorderAll(tab, ss) ==
    IF ss = <<>> THEN <<>>
    ELSE Preorder(tab, Head(ss)) \o PreorderAll(tab, Tail(ss))

symbolWithContextSync(tab, context) ==
    LET hits == SelectSeq(PreorderAll(tab, Children(tab, 0)),
                          LAMBDA s : tab[s].ctx = context)
    IN  IF hits = <<>> THEN -1 ELSE hits[1]

(***************************************************************************)
(* Scope Resolver (lines 12-22)                                            *)
(***************************************************************************)
RECURSIVE getScope(_, _, _)
getScope(tree, context, tab) ==
    IF context = 0
    THEN -1
    ELSE LET scope == symbolWithContextSync(tab, context)
         IN  IF scope >= 0
             THEN scope
             ELSE getScope(tree, tree[context].parent, tab)

\* suggestVariables, lines 37-44: the symbols offered at the caret and the
\* branch that collected them
symbolsAtCaret(tab, tree, context) ==
    LET scope == getScope(tree, context, tab)
    IN  IF scope >= 0 /\ IsScopedSymbol(tab, scope)
        THEN [scope |-> scope, branch |-> "chain",
              symbols |-> getAllSymbolsOfType(tab, scope, "VariableSymbol")]
        ELSE [scope |-> scope, branch |-> "flat",
              symbols |-> getAllSymbolsSync(tab, 0, "VariableSymbol", FALSE)]

(***************************************************************************)
(* Direct calls of the scope resolver: every tree of MaxNodes nodes, every *)
(* table of MaxCtxSyms symbols added to the table or to a scope of it,     *)
(* each with any node (or none) attached.                                  *)
(***************************************************************************)
MaxNodes == 3
MaxCtxSyms == 2

RuleNode(parent) == [parent |-> parent, kind |-> "RuleContext", type |-> 0]

PlainTrees ==
    { [i \in 1..MaxNodes |-> RuleNode(par[i])] :
        par \in {p \in [1..MaxNodes -> 0..(MaxNodes - 1)] :
                    /\ p[1] = 0
                    /\ \A i \in 2..MaxNodes : 1 <= p[i] /\ p[i] < i} }

CtxTables ==
    { tab \in [1..MaxCtxSyms ->
                 [parent : 0..(MaxCtxSyms - 1),
                  cls : {"ScopedSymbol", "VariableSymbol"},
                  name : {"x"}, ctx : 0..MaxNodes]] :
        \A i \in 1..MaxCtxSyms :
            /\ tab[i].parent < i
            /\ IsScopedSymbol(tab, tab[i].parent) }

InitScope ==
    /\ \E tree \in PlainTrees, tab \in CtxTables, node \in 0..MaxNodes :
          gcall = [op |-> "ready", tree |-> tree, tab |-> tab, node |-> node]
    /\ filterTokens = "startsWith"
    /\ input = Idle /\ last = Idle /\ fcall = Idle /\ acall = Idle

CallGetScope ==
    /\ gcall.op = "ready"
    /\ gcall' = [op |-> "returned", tree |-> gcall.tree, tab |-> gcall.tab,
                 node |-> gcall.node,
                 scope |-> getScope(gcall.tree, gcall.node, gcall.tab),
                 branch |-> symbolsAtCaret(gcall.tab, gcall.tree, gcall.node).branch]
    /\ UNCHANGED <<filterTokens, input, last, fcall, acall>>

NextScope == CallGetScope

SpecScope == InitScope /\ [][NextScope]_vars

\* ---- C9 ----
\* node, parent, grandparent, ... up to the root, nearest first
RECURSIVE NodeChain(_, _)
NodeChain(tree, n) ==
    IF n = 0 THEN <<>> ELSE <<n>> \o NodeChain(tree, tree[n].parent)

\* the scopes attached to node n
ScopesAt(tab, n) ==
    {s \in 1..Len(tab) : tab[s].cls = "ScopedSymbol" /\ tab[s].ctx = n}

\* C9: getScope returns none or a scope, never another symbol: the scope
\* attached to the nearest node of the chain that has one, none when the
\* node is absent or no node of the chain has one; suggestVariables climbs
\* the scope chain exactly when a scope was returned and looks the whole
\* table up exactly when none was.
C9_ScopeOrNone ==
    gcall.op = "returned" =>
        LET chain == NodeChain(gcall.tree, gcall.node)
            with  == {j \in DOMAIN chain : ScopesAt(gcall.tab, chain[j]) # {}}
        IN  /\ gcall.scope < 0 \/ IsScopedSymbol(gcall.tab, gcall.scope)
            /\ IF with = {}
               THEN gcall.scope < 0
               ELSE \E j \in with :
                       /\ \A k \in with : j <= k
                       /\ gcall.scope \in ScopesAt(gcall.tab, chain[j])
            /\ (gcall.branch = "chain") = (gcall.scope >= 0)
            /\ (gcall.branch = "flat") = (gcall.scope < 0)

\* the tables in which only scopes have a node attached
C9_OnlyScopesAttached ==
    gcall.op = "returned" =>
        ((\A s \in 1..Len(gcall.tab) :
              gcall.tab[s].ctx # 0 => gcall.tab[s].cls = "ScopedSymbol")
         => C9_ScopeOrNone)

(***************************************************************************)
(* Grammar vocabularies.  A vocabulary is the sequence of symbolic names   *)
(* by token type (Vocabulary.getSymbolicName); <<>> stands for a token     *)
(* type without symbolic name (`undefined`, falsy like the empty string).  *)
(* The generated parsers are not part of the source: the sequences keep    *)
(* the token types the code names and the order it relies on (operator and *)
(* comment tokens before FILE, keywords and identifiers after).            *)
(***************************************************************************)
StructurizrVocabulary ==
    << <<>>, <<"W","O","R","K","S","P","A","C","E">>, <<"M","O","D","E","L">>, <<"I","D">>, <<"N","L">> >>

KotlinVocabulary ==
    << <<"D","e","l","i","m","i","t","e","d","C","o","m","m","e","n","t">>, <<"L","i","n","e","C","o","m","m","e","n","t">>, <<"A","S","S","I","G","N","M","E","N","T">>, <<"F","I","L","E">>, <<"V","A","L">>,
       <<"N","O","T","_","I","S">>, <<"N","O","T","_","I","N">>, <<"Q","U","O","T","E","_","O","P","E","N">>, <<"T","R","I","P","L","E","_","Q","U","O","T","E","_","O","P","E","N">>,
       <<"R","e","a","l","L","i","t","e","r","a","l">>, <<"D","o","u","b","l","e","L","i","t","e","r","a","l">>, <<"L","o","n","g","L","i","t","e","r","a","l">>, <<"I","n","t","e","g","e","r","L","i","t","e","r","a","l">>,
       <<"H","e","x","L","i","t","e","r","a","l">>, <<"B","i","n","L","i","t","e","r","a","l">>, <<"B","o","o","l","e","a","n","L","i","t","e","r","a","l">>, <<"N","u","l","l","L","i","t","e","r","a","l">>,
       <<"I","d","e","n","t","i","f","i","e","r">>, <<"L","a","b","e","l","R","e","f","e","r","e","n","c","e">>, <<"L","a","b","e","l","D","e","f","i","n","i","t","i","o","n">>,
       <<"C","h","a","r","a","c","t","e","r","L","i","t","e","r","a","l">>, <<"Q","U","O","T","E","_","C","L","O","S","E">>, <<>> >>

\* the token type a parser class names
TokenType(vocabulary, name) ==
    CHOOSE k \in DOMAIN vocabulary : vocabulary[k] = name

\* Vocabulary.getSymbolicName
getSymbolicName(vocabulary, k) ==
    IF k \in DOMAIN vocabulary THEN vocabulary[k] ELSE <<>>

StructurizrParser_NL == TokenType(StructurizrVocabulary, <<"N","L">>)
StructurizrParser_ID == TokenType(StructurizrVocabulary, <<"I","D">>)

KotlinParser_FILE == TokenType(KotlinVocabulary, <<"F","I","L","E">>)
KotlinParser_Identifier == TokenType(KotlinVocabulary, <<"I","d","e","n","t","i","f","i","e","r">>)
KotlinParser_NOT_IN == TokenType(KotlinVocabulary, <<"N","O","T","_","I","N">>)
KotlinParser_NOT_IS == TokenType(KotlinVocabulary, <<"N","O","T","_","I","S">>)

RULE_variableRead == "variableRead"
RULE_suggestArgument == "suggestArgument"

\* lines 68-69: the DSL translator's `ignored`
StructurizrIgnored == {StructurizrParser_NL}

\* lines 106-113: the Kotlin-like translator's `ignored`
KotlinIgnored ==
    (0..(KotlinParser_FILE - 1))
    \cup { TokenType(KotlinVocabulary, n) :
             n \in { <<"B","i","n","L","i","t","e","r","a","l">>, <<"B","o","o","l","e","a","n","L","i","t","e","r","a","l">>, <<"C","h","a","r","a","c","t","e","r","L","i","t","e","r","a","l">>,
                     <<"D","o","u","b","l","e","L","i","t","e","r","a","l">>, <<"H","e","x","L","i","t","e","r","a","l">>, <<"I","n","t","e","g","e","r","L","i","t","e","r","a","l">>,
                     <<"L","o","n","g","L","i","t","e","r","a","l">>, <<"N","u","l","l","L","i","t","e","r","a","l">>, <<"R","e","a","l","L","i","t","e","r","a","l">>,
                     <<"D","e","l","i","m","i","t","e","d","C","o","m","m","e","n","t">>, <<"L","i","n","e","C","o","m","m","e","n","t">> } }
    \cup { TokenType(KotlinVocabulary, n) :
             n \in { <<"Q","U","O","T","E","_","O","P","E","N">>, <<"Q","U","O","T","E","_","C","L","O","S","E">>, <<"T","R","I","P","L","E","_","Q","U","O","T","E","_","O","P","E","N">> } }
    \cup { TokenType(KotlinVocabulary, n) :
             n \in { <<"L","a","b","e","l","D","e","f","i","n","i","t","i","o","n">>, <<"L","a","b","e","l","R","e","f","e","r","e","n","c","e">> } }

(***************************************************************************)
(* suggestVariables (lines 36-50)                                          *)
(***************************************************************************)
\* lines 45-48: climb to a VariableReadContext or to the root
RECURSIVE climbToVariableRead(_, _)
climbToVariableRead(tree, variable) ==
    IF tree[variable].kind # "VariableReadContext" /\ tree[variable].parent # 0
    THEN climbToVariableRead(tree, tree[variable].parent)
    ELSE variable

\* The result carries, beside the returned list (out), the text handed to
\* the filter (prefix), the strategy that was called (by) and the branch
\* that collected the symbols.
\* a plausible slip: the default matcher is called instead of the active one
suggestVariables_defaultMatcher(tab, tree, position, m) ==
    LET at       == symbolsAtCaret(tab, tree, position.context)
        variable == climbToVariableRead(tree, position.context)
        prefix   == IF variable # 0 THEN position.text ELSE <<>>
        names    == [i \in DOMAIN at.symbols |-> tab[at.symbols[i]].name]
    IN  [out |-> filterTokens_startsWith(prefix, names), prefix |-> prefix,
         names |-> names, by |-> "startsWith", branch |-> at.branch]

suggestVariables(tab, tree, position, m) ==
    LET at       == symbolsAtCaret(tab, tree, position.context)
        variable == climbToVariableRead(tree, position.context)
        \* line 49: `variable ? position.text : ''`; a node is never falsy
        prefix   == IF variable # 0 THEN position.text ELSE <<>>
        names    == [i \in DOMAIN at.symbols |-> tab[at.symbols[i]].name]
    IN  [out |-> ApplyMatcher(m, prefix, names), prefix |-> prefix,
         names |-> names, by |-> m, branch |-> at.branch]

(***************************************************************************)
(* Candidate translators (lines 65-144).  `candidates` is what             *)
(* CodeCompletionCore.collectCandidates returned: tokens, the viable token *)
(* types in the map's iteration order, and rules, the matched rules.       *)
(* `tab` is the table symbolTableFn() builds; `built` tells whether it was *)
(* called.                                                                 *)
(***************************************************************************)
\* a plausible slip: the identifier token type is not skipped
RECURSIVE structurizrTokens_keepID(_)
structurizrTokens_keepID(ks) ==
    IF ks = <<>> THEN <<>>
    ELSE LET symbolicName == getSymbolicName(StructurizrVocabulary, Head(ks))
         IN  (IF symbolicName # <<>> THEN << toLowerCase(symbolicName) >>
              ELSE <<>>)
             \o structurizrTokens_keepID(Tail(ks))

\* lines 79-92
RECURSIVE structurizrTokens(_)
structurizrTokens(ks) ==
    IF ks = <<>> THEN <<>>
    ELSE LET k == Head(ks)
             symbolicName == getSymbolicName(StructurizrVocabulary, k)
         IN  (IF k = StructurizrParser_ID THEN <<>>
              ELSE IF symbolicName # <<>> THEN << toLowerCase(symbolicName) >>
              ELSE <<>>)
             \o structurizrTokens(Tail(ks))

\* lines 124-137
RECURSIVE kotlinTokens(_)
kotlinTokens(ks) ==
    IF ks = <<>> THEN <<>>
    ELSE LET k == Head(ks)
             symbolicName == getSymbolicName(KotlinVocabulary, k)
         IN  (IF k = KotlinParser_Identifier THEN <<>>
              ELSE IF k = KotlinParser_NOT_IN THEN << <<"!","i","n">> >>
              ELSE IF k = KotlinParser_NOT_IS THEN << <<"!","i","s">> >>
              ELSE IF symbolicName # <<>> THEN << toLowerCase(symbolicName) >>
              ELSE <<>>)
             \o kotlinTokens(Tail(ks))

\* a plausible slip: the token type is looked up without the leaf test
textToMatch_anyNode(tree, position, ignored) ==
    IF tree[position.context].type \in ignored THEN <<>> ELSE position.text

\* lines 93-96 and 138-141
textToMatch(tree, position, ignored) ==
    LET isIgnoredToken ==
            /\ tree[position.context].kind = "TerminalNode"
            /\ tree[position.context].type \in ignored
    IN  IF isIgnoredToken THEN <<>> ELSE position.text

NoVariables ==
    [out |-> <<>>, prefix |-> <<>>, names |-> <<>>, by |-> "", branch |-> ""]

getSuggestionsForParseTree(tree, tab, position, candidates, m) ==
    LET tokens == structurizrTokens(candidates.tokens)
        text   == textToMatch(tree, position, StructurizrIgnored)
        voc    == ApplyMatcher(m, text, tokens)
    IN  [out |-> voc, ids |-> NoVariables, voc |-> voc, tokens |-> tokens,
         textToMatch |-> text, used |-> <<m>>, built |-> FALSE,
         translated |-> TRUE]

\* a plausible slip: a name offered as variable and as keyword is kept once
getSuggestionsForParseTreeK_merged(tree, tab, position, candidates, m) ==
    LET wanted == candidates.rules
                    \cap {RULE_variableRead, RULE_suggestArgument} # {}
        ids    == IF wanted THEN suggestVariables(tab, tree, position, m)
                  ELSE NoVariables
        tokens == kotlinTokens(candidates.tokens)
        text   == textToMatch(tree, position, KotlinIgnored)
        voc    == ApplyMatcher(m, text, tokens)
    IN  [out |-> ids.out \o SelectSeq(voc, LAMBDA t :
                                 \A i \in DOMAIN ids.out : ids.out[i] # t),
         ids |-> ids, voc |-> voc, tokens |-> tokens, textToMatch |-> text,
         used |-> IF wanted THEN <<ids.by, m>> ELSE <<m>>,
         built |-> wanted, translated |-> TRUE]

getSuggestionsForParseTreeK(tree, tab, position, candidates, m) ==
    LET wanted == candidates.rules
                    \cap {RULE_variableRead, RULE_suggestArgument} # {}
        ids    == IF wanted THEN suggestVariables(tab, tree, position, m)
                  ELSE NoVariables
        tokens == kotlinTokens(candidates.tokens)
        text   == textToMatch(tree, position, KotlinIgnored)
        voc    == ApplyMatcher(m, text, tokens)
    IN  [out |-> ids.out \o voc, ids |-> ids, voc |-> voc, tokens |-> tokens,
         textToMatch |-> text,
         used |-> IF wanted THEN <<ids.by, m>> ELSE <<m>>,
         built |-> wanted, translated |-> TRUE]

(***************************************************************************)
(* Request orchestrators (lines 146-178).  `position` is what the caller's *)
(* computeTokenPosition returned: mapped is FALSE when it returned nothing.*)
(***************************************************************************)
NotTranslated ==
    [out |-> <<>>, ids |-> NoVariables, voc |-> <<>>, tokens |-> <<>>,
     textToMatch |-> <<>>, used |-> <<>>, built |-> FALSE,
     translated |-> FALSE]

\* a plausible slip: without the test of lines 156-158 the translator runs
\* on an empty position at the root
getSuggestionsResult_noTest(tree, tab, position, candidates, m) ==
    getSuggestionsForParseTree(tree, tab,
        IF position.mapped THEN position
        ELSE [mapped |-> TRUE, context |-> 1, text |-> <<>>],
        candidates, m)

\* lines 155-160
getSuggestionsResult(tree, tab, position, candidates, m) ==
    IF ~position.mapped
    THEN NotTranslated
    ELSE getSuggestionsForParseTree(tree, tab, position, candidates, m)

\* lines 172-177
getSuggestionsKResult(tree, tab, position, candidates, m) ==
    IF ~position.mapped
    THEN NotTranslated
    ELSE getSuggestionsForParseTreeK(tree, tab, position, candidates, m)

(***************************************************************************)
(* Requests: the parse trees are chains root .. caret node of at most      *)
(* MaxDepth nodes, the candidate sets hold at most MaxTokens token types.  *)
(***************************************************************************)
MaxDepth == 2
MaxTokens == 2

Texts == { <<>>, <<"F">> }

Unmapped == [mapped |-> FALSE, context |-> 0, text |-> <<>>]

Mapped(tree) ==
    { [mapped |-> TRUE, context |-> Len(tree), text |-> t] : t \in Texts }

\* chains whose inner nodes have a kind of `inner` and whose caret node is
\* one of `rules` or, below the root, a leaf with a token type of `leaves`
ChainTrees(inner, rules, leaves) ==
    { [i \in 1..d |-> IF i < d THEN [parent |-> i - 1, kind |-> ks[i], type |-> 0]
                      ELSE [parent |-> i - 1, kind |-> caret.kind,
                            type |-> caret.type]] :
        d \in 1..MaxDepth, ks \in [1..MaxDepth -> inner],
        caret \in [kind : rules, type : {0}]
                  \cup [kind : {"TerminalNode"}, type : leaves] }
    \ [1..1 -> [parent : {0}, kind : {"TerminalNode"}, type : leaves]]

StructurizrTrees ==
    ChainTrees({"RuleContext"}, {"RuleContext"},
               {StructurizrParser_NL, TokenType(StructurizrVocabulary, <<"W","O","R","K","S","P","A","C","E">>)})

KotlinTrees ==
    ChainTrees({"RuleContext", "VariableReadContext"},
               {"RuleContext", "VariableReadContext"},
               {TokenType(KotlinVocabulary, <<"A","S","S","I","G","N","M","E","N","T">>),
                TokenType(KotlinVocabulary, <<"I","n","t","e","g","e","r","L","i","t","e","r","a","l">>),
                KotlinParser_FILE, KotlinParser_Identifier})

DistinctSeqs(S, n) ==
    {t \in SeqsUpTo(S, n) : \A i, j \in DOMAIN t : i # j => t[i] # t[j]}

StructurizrCandidates ==
    [tokens : DistinctSeqs({1, TokenType(StructurizrVocabulary, <<"W","O","R","K","S","P","A","C","E">>),
                            TokenType(StructurizrVocabulary, <<"M","O","D","E","L">>),
                            StructurizrParser_ID}, MaxTokens),
     rules : {{}}]

KotlinCandidates ==
    [tokens : DistinctSeqs({Len(KotlinVocabulary), KotlinParser_FILE,
                            TokenType(KotlinVocabulary, <<"V","A","L">>),
                            KotlinParser_NOT_IN, KotlinParser_NOT_IS,
                            KotlinParser_Identifier}, MaxTokens),
     rules : SUBSET {RULE_variableRead, RULE_suggestArgument}]

NoCandidates == [tokens |-> <<>>, rules |-> {}]

\* the tables the builder makes of a request's tree: two variables declared
\* at the top, or one of them inside a scope attached to the root node
TableFlat ==
    << [parent |-> 0, cls |-> "VariableSymbol", name |-> <<"v","a","l","u","e">>, ctx |-> 0],
       [parent |-> 0, cls |-> "VariableSymbol", name |-> <<"f","i","l","e">>, ctx |-> 0] >>

TableScoped ==
    << [parent |-> 0, cls |-> "ScopedSymbol", name |-> <<>>, ctx |-> 1],
       [parent |-> 1, cls |-> "VariableSymbol", name |-> <<"f","i","l","e">>, ctx |-> 0],
       [parent |-> 0, cls |-> "VariableSymbol", name |-> <<"v","a","l","u","e">>, ctx |-> 0] >>

RequestTables == {TableFlat, TableScoped}

\* what one request is about: the document and caret, given by what the
\* parser, computeTokenPosition, collectCandidates and the table builder
\* return for them
StructurizrInputs ==
    UNION { [op : {"getSuggestions"}, tree : {tree},
             position : Mapped(tree), candidates : StructurizrCandidates,
             tab : {TableFlat}]
            \cup [op : {"getSuggestions"}, tree : {tree}, position : {Unmapped},
                  candidates : {NoCandidates}, tab : {TableFlat}] :
            tree \in StructurizrTrees }

KotlinInputs ==
    UNION { [op : {"getSuggestionsK"}, tree : {tree},
             position : Mapped(tree), candidates : KotlinCandidates,
             tab : RequestTables]
            \cup [op : {"getSuggestionsK"}, tree : {tree}, position : {Unmapped},
                  candidates : {NoCandidates}, tab : {TableFlat}] :
            tree \in KotlinTrees }

Init ==
    /\ filterTokens = "startsWith"
    /\ input \in StructurizrInputs \cup KotlinInputs
    /\ last = Idle
    /\ fcall = Idle /\ acall = Idle /\ gcall = Idle

getSuggestions ==
    /\ input.op = "getSuggestions"
    /\ last' = [op |-> "getSuggestions",
                r |-> getSuggestionsResult(input.tree, input.tab, input.position,
                                           input.candidates, filterTokens)]
    /\ UNCHANGED <<filterTokens, input, fcall, acall, gcall>>

getSuggestionsK ==
    /\ input.op = "getSuggestionsK"
    /\ last' = [op |-> "getSuggestionsK",
                r |-> getSuggestionsKResult(input.tree, input.tab, input.position,
                                            input.candidates, filterTokens)]
    /\ UNCHANGED <<filterTokens, input, fcall, acall, gcall>>

\* lines 61-63
setTokenMatcher ==
    /\ \E fn \in Matchers : filterTokens' = fn
    /\ UNCHANGED <<input, last, fcall, acall, gcall>>

Next == getSuggestions \/ getSuggestionsK \/ setTokenMatcher

Spec == Init /\ [][Next]_vars

\* ---- C3 .. C8 ----
Requested == last.op # "idle"

Translated == Requested /\ last.r.translated

\* the strategy that was active when the last request ran
UsedMatcher == last.r.used[Len(last.r.used)]

Caret == input.tree[input.position.context]

\* a variable-read node lies on the walk from the caret's node to the root
VariableReadOnWalk ==
    \E n \in RangeOf(NodeChain(input.tree, input.position.context)) :
        input.tree[n].kind = "VariableReadContext"

\* C3: on the identifier path the text handed to the filter is the typed
\* text when a variable-read node lies on the walk from the caret's node to
\* the root, and the empty text when the walk ends at the root without one.
C3_VariablePrefix ==
    (last.op = "getSuggestionsK" /\ last.r.built) =>
        last.r.ids.prefix =
            IF VariableReadOnWalk THEN input.position.text ELSE <<>>

\* the caret's node is a leaf whose token type the translator ignores
CaretIgnored ==
    /\ Caret.kind = "TerminalNode"
    /\ IF input.op = "getSuggestions"
       THEN StructurizrVocabulary[Caret.type] = <<"N","L">>
       ELSE \/ Caret.type < KotlinParser_FILE
            \/ KotlinVocabulary[Caret.type] \in
                 { <<"B","i","n","L","i","t","e","r","a","l">>, <<"B","o","o","l","e","a","n","L","i","t","e","r","a","l">>, <<"C","h","a","r","a","c","t","e","r","L","i","t","e","r","a","l">>,
                   <<"D","o","u","b","l","e","L","i","t","e","r","a","l">>, <<"H","e","x","L","i","t","e","r","a","l">>, <<"I","n","t","e","g","e","r","L","i","t","e","r","a","l">>,
                   <<"L","o","n","g","L","i","t","e","r","a","l">>, <<"N","u","l","l","L","i","t","e","r","a","l">>, <<"R","e","a","l","L","i","t","e","r","a","l">>,
                   <<"D","e","l","i","m","i","t","e","d","C","o","m","m","e","n","t">>, <<"L","i","n","e","C","o","m","m","e","n","t">>, <<"Q","U","O","T","E","_","O","P","E","N">>,
                   <<"Q","U","O","T","E","_","C","L","O","S","E">>, <<"T","R","I","P","L","E","_","Q","U","O","T","E","_","O","P","E","N">>, <<"L","a","b","e","l","D","e","f","i","n","i","t","i","o","n">>,
                   <<"L","a","b","e","l","R","e","f","e","r","e","n","c","e">> }

\* C4: in both translators the text matched against the vocabulary-derived
\* suggestions is empty when the caret's node is a leaf with an ignored
\* token type (and the default strategy then returns them all), and the
\* typed text in every other case.
C4_IgnoredContext ==
    Translated =>
        /\ last.r.textToMatch =
              IF CaretIgnored THEN <<>> ELSE input.position.text
        /\ (CaretIgnored /\ UsedMatcher = "startsWith") =>
              last.r.voc = last.r.tokens

C4_Witness ==
    /\ Translated /\ CaretIgnored
    /\ input.op = "getSuggestionsK"
    /\ Caret.type >= KotlinParser_FILE
    /\ input.position.text # <<>>
    /\ last.r.textToMatch = <<>>
    /\ UsedMatcher = "startsWith"
    /\ Len(last.r.voc) = 2

\* what a request on the current input returns under strategy m
Returned(m) ==
    IF ~input.position.mapped THEN <<>>
    ELSE LET tokens == IF input.op = "getSuggestions"
                       THEN structurizrTokens(input.candidates.tokens)
                       ELSE kotlinTokens(input.candidates.tokens)
             byName == input.op = "getSuggestionsK"
                       /\ input.candidates.rules # {}
         IN  (IF byName
              THEN ApplyMatcher(m, last.r.ids.prefix, last.r.ids.names)
              ELSE <<>>)
             \o ApplyMatcher(m, last.r.textToMatch, tokens)

\* C5: the active strategy is initially the prefix matcher; a request calls
\* the strategy that is active when it runs, on the identifier path and on
\* the vocabulary path of both translators, and no other; replacing the
\* strategy leaves the results already returned as they are.
C5_ActiveStrategy ==
    /\ filterTokens = "startsWith"
    /\ [][ /\ (last' # last) =>
                /\ \A i \in DOMAIN last'.r.used : last'.r.used[i] = filterTokens
                /\ last'.r.out = Returned(filterTokens)'
           /\ (filterTokens' # filterTokens) => last' = last ]_vars

C5_Witness ==
    /\ last.op = "getSuggestionsK"
    /\ filterTokens = "contains"
    /\ last.r.used = <<"contains", "contains">>
    /\ last.r.out # getSuggestionsKResult(input.tree, input.tab, input.position,
                                          input.candidates, "startsWith").out

\* C6: when the caller's mapper yields no position, either entry point
\* returns the empty list, and neither the translator nor the table builder
\* is invoked.
C6_Unmapped ==
    (Requested /\ ~input.position.mapped) =>
        /\ last.r.out = <<>>
        /\ ~last.r.translated
        /\ ~last.r.built

C6_Witness ==
    /\ last.op = "getSuggestions"
    /\ ~input.position.mapped
    /\ last.r.out = <<>>

\* C7: the Kotlin-like translator returns the filtered identifier
\* suggestions (none when neither preferred rule was matched) followed by
\* the filtered vocabulary-derived suggestions, nothing removed.
C7_Concatenation ==
    (last.op = "getSuggestionsK" /\ last.r.translated) =>
        LET ids == IF input.candidates.rules
                        \cap {RULE_variableRead, RULE_suggestArgument} # {}
                   THEN suggestVariables(input.tab, input.tree, input.position,
                                         UsedMatcher).out
                   ELSE <<>>
            voc == ApplyMatcher(UsedMatcher,
                       textToMatch(input.tree, input.position, KotlinIgnored),
                       kotlinTokens(input.candidates.tokens))
        IN  /\ last.r.out = ids \o voc
            /\ Len(last.r.out) = Len(ids) + Len(voc)

\* "file" is offered as a variable and again as a keyword
C7_Witness ==
    /\ last.op = "getSuggestionsK" /\ last.r.translated
    /\ \E i, j \in DOMAIN last.r.out :
          /\ i <= Len(last.r.ids.out) /\ j > Len(last.r.ids.out)
          /\ last.r.out[i] = <<"f","i","l","e">> /\ last.r.out[j] = <<"f","i","l","e">>

\* C8: a DSL request never invokes the table builder, and with the default
\* strategy every element of its result is the lower-cased symbolic name of
\* a viable token type other than the identifier's; a token type without
\* symbolic name adds nothing.
C8_VocabularyOnly ==
    last.op = "getSuggestions" =>
        /\ ~last.r.built
        /\ (last.r.translated /\ UsedMatcher = "startsWith") =>
              \A i \in DOMAIN last.r.out :
                 \E k \in RangeOf(input.candidates.tokens) :
                    /\ StructurizrVocabulary[k] \notin {<<>>, <<"I","D">>}
                    /\ \A c \in DOMAIN last.r.out[i] :
                          last.r.out[i][c] =
                             LowerChars[CHOOSE u \in DOMAIN UpperChars :
                                 UpperChars[u] = StructurizrVocabulary[k][c]]
                    /\ Len(last.r.out[i]) = Len(StructurizrVocabulary[k])

C8_Witness ==
    /\ last.op = "getSuggestions" /\ last.r.translated
    /\ UsedMatcher = "startsWith"
    /\ StructurizrParser_ID \in RangeOf(input.candidates.tokens)
    /\ last.r.out = << <<"w","o","r","k","s","p","a","c","e">> >>

=============================================================================
